---- MODULE Spec2Model ----
(***************************************************************************)
(* River-crossing solver (main.py): instance model, state validity,        *)
(* successor generation, breadth-first search and iterative-deepening      *)
(* depth-first search, run one after the other on one instance.            *)
(***************************************************************************)
EXTENDS Integers, Sequences, FiniteSets, TLC

(* ------------------------------------------------------------------ *)
(* Bounds                                                              *)
(* ------------------------------------------------------------------ *)
\* largest explicit max_depth_cap argument tried besides the default
MaxCap == 2

(* ------------------------------------------------------------------ *)
(* Items, Python values                                                *)
(* ------------------------------------------------------------------ *)
\* W, G, C = "W", "G", "C" ; items=(W, G, C)
ITEMS == <<"W", "G", "C">>

\* Python compares one-character strings by code point
ord == [W |-> 87, G |-> 71, C |-> 67]

\* default of the max_depth_cap parameter
DEFAULT_MAX_DEPTH_CAP == 64

Sides == {"L", "R"}

\* Optional[State] / Action = Optional[str]: the None value of each type
NoneState == [left |-> {}, farmer |-> "None"]
NoneAction == [cargo |-> "None", dir |-> "None"]
NoneCargo == "None"

SeqToSet(s) == {s[k] : k \in 1..Len(s)}

\* list.reverse()
Reverse(s) == [j \in 1..Len(s) |-> s[Len(s) + 1 - j]]

Max(a, b) == IF a >= b THEN a ELSE b

(* ------------------------------------------------------------------ *)
(* Instances                                                           *)
(* ------------------------------------------------------------------ *)
Instance(items, forbidden_pairs, start_farmer, start_item_side, goal_side) ==
    [items |-> items, forbidden_pairs |-> forbidden_pairs,
     start_farmer |-> start_farmer, start_item_side |-> start_item_side,
     goal_side |-> goal_side]

INSTANCE_A == Instance(ITEMS, {<<"W", "G">>, <<"G", "C">>}, "L",
                       [i \in SeqToSet(ITEMS) |-> "L"], "R")

INSTANCE_B == Instance(ITEMS, {<<"W", "G">>, <<"G", "C">>}, "L",
                       [i \in SeqToSet(ITEMS) |-> IF i = "G" THEN "R" ELSE "L"], "R")

\* the driver has not picked an instance yet
NoInstance == Instance(<<>>, {}, "None", <<>>, "None")

\* catalogs: the non-empty prefixes of the program's item tuple
Catalogs == {SubSeq(ITEMS, 1, n) : n \in 1..Len(ITEMS)}

\* the unordered pairs of distinct catalog items, written in catalog order
AllPairs(items) ==
    {<<items[a], items[b]>> : a \in 1..Len(items), b \in 1..Len(items)} \cap
    {p \in SeqToSet(items) \X SeqToSet(items) :
        \E a, b \in 1..Len(items) : a < b /\ p = <<items[a], items[b]>>}

Instances ==
    UNION {
      { Instance(items, fp, sf, sis, gs) :
          fp \in SUBSET AllPairs(items),
          sf \in Sides,
          sis \in [SeqToSet(items) -> Sides],
          gs \in Sides }
      : items \in Catalogs }

(* ------------------------------------------------------------------ *)
(* Core state and helpers                                              *)
(* ------------------------------------------------------------------ *)
\* mutant: the items whose side is 'R' are taken as the left bank
make_start_state_swapped(inst) ==
    [left |-> {i \in DOMAIN inst.start_item_side : inst.start_item_side[i] = "R"},
     farmer |-> inst.start_farmer]

make_start_state(inst) ==
    [left |-> {i \in DOMAIN inst.start_item_side : inst.start_item_side[i] = "L"},
     farmer |-> inst.start_farmer]

\* mutant: goal_side is ignored
is_goal_right_only(state, inst) == Cardinality(state.left) = 0

is_goal(state, inst) ==
    IF inst.goal_side = "R"
    THEN Cardinality(state.left) = 0
    ELSE Cardinality(state.left) = Len(inst.items)

\* mutant: "or" for "and" in the pair test
bank_unsafe_either_member(inst, bank, farmer_here) ==
    IF farmer_here
    THEN FALSE
    ELSE \E p \in inst.forbidden_pairs : p[1] \in bank \/ p[2] \in bank

bank_unsafe(inst, bank, farmer_here) ==
    IF farmer_here
    THEN FALSE
    ELSE \E p \in inst.forbidden_pairs : p[1] \in bank /\ p[2] \in bank

\* mutant: only the left bank is tested
state_valid_left_only(state, inst) ==
    ~bank_unsafe(inst, state.left, state.farmer = "L")

\* mutant: only the derived right bank is tested
state_valid_right_only(state, inst) ==
    ~bank_unsafe(inst, SeqToSet(inst.items) \ state.left, state.farmer /= "L")

\* mutant: the right bank is tested with the left bank's farmer flag
state_valid_same_flag(state, inst) ==
    /\ ~bank_unsafe(inst, state.left, state.farmer = "L")
    /\ ~bank_unsafe(inst, SeqToSet(inst.items) \ state.left, state.farmer = "L")

state_valid(state, inst) ==
    LET left == state.left
        items_set == SeqToSet(inst.items)
        right == items_set \ left
        farmer_left == (state.farmer = "L")
    IN  /\ ~bank_unsafe(inst, left, farmer_left)
        /\ ~bank_unsafe(inst, right, ~farmer_left)

\* sorted(list(current_bank)): ascending by code point; the j-th element is
\* the one with j - 1 smaller elements below it
sorted(S) ==
    [j \in 1..Cardinality(S) |->
        CHOOSE x \in S : Cardinality({y \in S : ord[y] < ord[x]}) = j - 1]

\* mutant: the items of the bank in catalog order instead of sorted order
candidates_catalog_order(state, inst) ==
    LET right == SeqToSet(inst.items) \ state.left
        current_bank == IF state.farmer = "L" THEN state.left ELSE right
    IN  <<NoneCargo>> \o SelectSeq(inst.items, LAMBDA it : it \in current_bank)

\* candidates = [None] + sorted(list(current_bank))
candidates(state, inst) ==
    LET right == SeqToSet(inst.items) \ state.left
        current_bank == IF state.farmer = "L" THEN state.left ELSE right
    IN  <<NoneCargo>> \o sorted(current_bank)

\* f"Farmer takes {cargo or 'nothing'} L->R"
Desc(cargo, dir) ==
    [cargo |-> IF cargo = NoneCargo THEN "nothing" ELSE cargo, dir |-> dir]

\* mutant: the cargo changes bank but new_farmer is the farmer's old side
move_farmer_stays(state, cargo) ==
    IF state.farmer = "L"
    THEN [ns |-> [left |-> IF cargo /= NoneCargo THEN state.left \ {cargo}
                                                 ELSE state.left,
                  farmer |-> "L"],
          desc |-> Desc(cargo, "L->R")]
    ELSE [ns |-> [left |-> IF cargo /= NoneCargo THEN state.left \cup {cargo}
                                                 ELSE state.left,
                  farmer |-> "R"],
          desc |-> Desc(cargo, "R->L")]

\* body of the for loop of next_states: the candidate state and its label
move(state, cargo) ==
    IF state.farmer = "L"
    THEN [ns |-> [left |-> IF cargo /= NoneCargo THEN state.left \ {cargo}
                                                 ELSE state.left,
                  farmer |-> "R"],
          desc |-> Desc(cargo, "L->R")]
    ELSE [ns |-> [left |-> IF cargo /= NoneCargo THEN state.left \cup {cargo}
                                                 ELSE state.left,
                  farmer |-> "L"],
          desc |-> Desc(cargo, "R->L")]

\* for cargo in candidates: ... if state_valid(ns, inst): moves.append((ns, desc))
next_states(state, inst) ==
    LET cands == candidates(state, inst)
        tried == [j \in 1..Len(cands) |-> move(state, cands[j])]
    IN  SelectSeq(tried, LAMBDA m : state_valid(m.ns, inst))

(* ------------------------------------------------------------------ *)
(* Program state                                                       *)
(* ------------------------------------------------------------------ *)
VARIABLES
    inst,             \* the Instance handed to the solvers
    pc,               \* position of the driver / solvers
    \* locals of bfs_solve_with_metrics
    q, parent, action, visited,
    bfs_s, bfs_succ, bfs_k,   \* s, the list being iterated and the position in it
    nodes_generated, nodes_expanded, max_frontier,
    bfs_result,       \* (path, metrics) returned by bfs_solve_with_metrics
    \* locals of ids_solve_with_metrics and of the dls recursion
    max_depth_cap, limit, ids_parent, ids_action,
    total_gen, total_exp, ids_max_frontier,
    stack,            \* dls call frames, innermost last
    path_set,
    ret,              \* value returned by the dls call that just ended
    ids_result,       \* (path, metrics) returned by ids_solve_with_metrics
    \* direct calls of the pure helpers
    arg, out, mirror_out,
    \* the driver: which call of the solvers this is, and what the first one returned
    run, first,
    \* history: the states popped from q so far, in order
    dequeued

bfs_vars == <<q, parent, action, visited, dequeued, bfs_s, bfs_succ, bfs_k, nodes_generated, nodes_expanded,
              max_frontier, bfs_result>>
ids_vars == <<max_depth_cap, limit, ids_parent, ids_action, total_gen, total_exp,
              ids_max_frontier, stack, path_set, ret, ids_result>>
helper_vars == <<arg, out, mirror_out>>
driver_vars == <<run, first>>
vars == <<inst, pc, bfs_vars, ids_vars, helper_vars, driver_vars>>

\* "no value yet" for a (path, metrics) result and for a dls return
NoResult == [path |-> <<>>, metrics |-> [k \in {} |-> 0]]
NoRet == [goal |-> NoneState, cut |-> FALSE, pending |-> FALSE]
NoFirst == [bfs |-> NoResult, ids |-> NoResult, cap |-> 0]
NoOut == [called |-> FALSE, valid |-> FALSE, succ |-> <<>>, cands |-> <<>>]

(* ------------------------------------------------------------------ *)
(* BFS (graph)                                                         *)
(* ------------------------------------------------------------------ *)
\* while cur is not None: path.append((cur, action[cur])); cur = parent[cur]
RECURSIVE bfs_backtrack(_, _, _)
bfs_backtrack(cur, par, act) ==
    IF cur = NoneState THEN <<>>
    ELSE <<[state |-> cur, label |-> act[cur]]>> \o bfs_backtrack(par[cur], par, act)

bfs_path(s, par, act) == Reverse(bfs_backtrack(s, par, act))

bfs_metrics(gen, exp, maxf, depth) ==
    [nodes_generated |-> gen, nodes_expanded |-> exp, max_frontier_size |-> maxf,
     solution_depth |-> depth, solution_cost |-> depth]

\* the driver calls bfs_solve_with_metrics(inst): the locals before the loop
BfsCall ==
    /\ pc = "menu"
    /\ \E i \in Instances :
          /\ inst' = i
          /\ q' = <<make_start_state(i)>>
          /\ parent' = (make_start_state(i) :> NoneState)
          /\ action' = (make_start_state(i) :> NoneAction)
          /\ visited' = {make_start_state(i)}
    /\ dequeued' = <<>>
    /\ nodes_generated' = 0
    /\ nodes_expanded' = 0
    /\ max_frontier' = 1
    /\ pc' = "bfs"
    /\ UNCHANGED <<bfs_s, bfs_succ, bfs_k, bfs_result, ids_vars, helper_vars, driver_vars>>

\* mutant: the counters live outside the call and are not reset by a second call
BfsRecall_keeps_counters ==
    /\ pc = "done"
    /\ run = 1
    /\ run' = 2
    /\ first' = [bfs |-> bfs_result, ids |-> ids_result, cap |-> max_depth_cap]
    /\ q' = <<make_start_state(inst)>>
    /\ parent' = (make_start_state(inst) :> NoneState)
    /\ action' = (make_start_state(inst) :> NoneAction)
    /\ visited' = {make_start_state(inst)}
    /\ dequeued' = <<>>
    /\ pc' = "bfs"
    /\ UNCHANGED <<inst, nodes_generated, nodes_expanded, max_frontier,
                   bfs_s, bfs_succ, bfs_k, bfs_result, ids_vars, helper_vars>>

\* the driver calls bfs_solve_with_metrics(inst) a second time on the same
\* instance, keeping what the first calls returned: the locals are made afresh
BfsRecall ==
    /\ pc = "done"
    /\ run = 1
    /\ run' = 2
    /\ first' = [bfs |-> bfs_result, ids |-> ids_result, cap |-> max_depth_cap]
    /\ q' = <<make_start_state(inst)>>
    /\ parent' = (make_start_state(inst) :> NoneState)
    /\ action' = (make_start_state(inst) :> NoneAction)
    /\ visited' = {make_start_state(inst)}
    /\ dequeued' = <<>>
    /\ nodes_generated' = 0
    /\ nodes_expanded' = 0
    /\ max_frontier' = 1
    /\ pc' = "bfs"
    /\ UNCHANGED <<inst, bfs_s, bfs_succ, bfs_k, bfs_result, ids_vars, helper_vars>>

\* mutant: q.pop(), the latest-enqueued state
pop_right(dq) == [s |-> dq[Len(dq)], rest |-> SubSeq(dq, 1, Len(dq) - 1)]

\* s = q.popleft(): the earliest-enqueued state and the rest of the deque
popleft(dq) == [s |-> Head(dq), rest |-> Tail(dq)]

\* one pass of "while q" that dequeues a goal: reconstruct and return
BfsGoal ==
    /\ pc = "bfs"
    /\ q /= <<>>
    /\ is_goal(popleft(q).s, inst)
    /\ LET s == popleft(q).s
           path == bfs_path(s, parent, action)
           depth == Len(path) - 1
       IN  /\ q' = popleft(q).rest
           /\ dequeued' = Append(dequeued, s)
           /\ nodes_expanded' = nodes_expanded + 1
           /\ bfs_result' = [path |-> path,
                             metrics |-> bfs_metrics(nodes_generated, nodes_expanded + 1,
                                                     max_frontier, depth)]
    /\ pc' = "bfs_returned"
    /\ UNCHANGED <<inst, parent, action, visited, bfs_s, bfs_succ, bfs_k, nodes_generated,
                   max_frontier, ids_vars, helper_vars, driver_vars>>

\* one pass of "while q" that dequeues a non-goal state: enter its for loop
BfsDequeue ==
    /\ pc = "bfs"
    /\ q /= <<>>
    /\ ~is_goal(popleft(q).s, inst)
    /\ bfs_s' = popleft(q).s
    /\ q' = popleft(q).rest
    /\ dequeued' = Append(dequeued, popleft(q).s)
    /\ nodes_expanded' = nodes_expanded + 1
    /\ bfs_succ' = next_states(popleft(q).s, inst)
    /\ bfs_k' = 1
    /\ pc' = IF next_states(popleft(q).s, inst) = <<>> THEN "bfs" ELSE "bfs_for"
    /\ UNCHANGED <<inst, parent, action, visited, nodes_generated, max_frontier,
                   bfs_result, ids_vars, helper_vars, driver_vars>>

\* mutant: the successor is enqueued without being marked visited
BfsVisit_no_mark ==
    /\ pc = "bfs_for"
    /\ bfs_succ[bfs_k].ns \notin visited
    /\ nodes_generated' = nodes_generated + 1
    /\ parent' = (bfs_succ[bfs_k].ns :> bfs_s) @@ parent
    /\ action' = (bfs_succ[bfs_k].ns :> bfs_succ[bfs_k].desc) @@ action
    /\ q' = Append(q, bfs_succ[bfs_k].ns)
    /\ max_frontier' = IF Len(q) + 1 > max_frontier THEN Len(q) + 1 ELSE max_frontier
    /\ bfs_k' = bfs_k + 1
    /\ pc' = IF bfs_k = Len(bfs_succ) THEN "bfs" ELSE "bfs_for"
    /\ UNCHANGED <<inst, visited, dequeued, bfs_s, bfs_succ, nodes_expanded, bfs_result,
                   ids_vars, helper_vars, driver_vars>>

\* for ns, desc in next_states(s, inst): ns not in visited
BfsVisit ==
    /\ pc = "bfs_for"
    /\ bfs_succ[bfs_k].ns \notin visited
    /\ nodes_generated' = nodes_generated + 1
    /\ visited' = visited \cup {bfs_succ[bfs_k].ns}
    /\ parent' = (bfs_succ[bfs_k].ns :> bfs_s) @@ parent
    /\ action' = (bfs_succ[bfs_k].ns :> bfs_succ[bfs_k].desc) @@ action
    /\ q' = Append(q, bfs_succ[bfs_k].ns)
    /\ max_frontier' = IF Len(q) + 1 > max_frontier THEN Len(q) + 1 ELSE max_frontier
    /\ bfs_k' = bfs_k + 1
    /\ pc' = IF bfs_k = Len(bfs_succ) THEN "bfs" ELSE "bfs_for"
    /\ UNCHANGED <<inst, dequeued, bfs_s, bfs_succ, nodes_expanded, bfs_result,
                   ids_vars, helper_vars, driver_vars>>

\* mutant: an already visited successor is not counted as generated
BfsSeen_not_counted ==
    /\ pc = "bfs_for"
    /\ bfs_succ[bfs_k].ns \in visited
    /\ bfs_k' = bfs_k + 1
    /\ pc' = IF bfs_k = Len(bfs_succ) THEN "bfs" ELSE "bfs_for"
    /\ UNCHANGED <<inst, dequeued, bfs_s, bfs_succ, q, parent, action, visited,
                   nodes_generated, nodes_expanded, max_frontier, bfs_result, ids_vars,
                   helper_vars, driver_vars>>

\* for ns, desc in next_states(s, inst): ns already visited
BfsSeen ==
    /\ pc = "bfs_for"
    /\ bfs_succ[bfs_k].ns \in visited
    /\ nodes_generated' = nodes_generated + 1
    /\ bfs_k' = bfs_k + 1
    /\ pc' = IF bfs_k = Len(bfs_succ) THEN "bfs" ELSE "bfs_for"
    /\ UNCHANGED <<inst, dequeued, bfs_s, bfs_succ, q, parent, action, visited,
                   nodes_expanded, max_frontier, bfs_result, ids_vars, helper_vars,
                   driver_vars>>

\* mutant: the failure result carries depth 0 instead of the sentinel
BfsFail_zero_depth ==
    /\ pc = "bfs"
    /\ q = <<>>
    /\ bfs_result' = [path |-> <<>>,
                      metrics |-> bfs_metrics(nodes_generated, nodes_expanded,
                                              max_frontier, 0)]
    /\ pc' = "bfs_returned"
    /\ UNCHANGED <<inst, q, parent, action, visited, dequeued, bfs_s, bfs_succ, bfs_k,
                   nodes_generated, nodes_expanded, max_frontier, ids_vars, helper_vars,
                   driver_vars>>

\* the frontier emptied without a goal
BfsFail ==
    /\ pc = "bfs"
    /\ q = <<>>
    /\ bfs_result' = [path |-> <<>>,
                      metrics |-> bfs_metrics(nodes_generated, nodes_expanded,
                                              max_frontier, -1)]
    /\ pc' = "bfs_returned"
    /\ UNCHANGED <<inst, q, parent, action, visited, dequeued, bfs_s, bfs_succ, bfs_k,
                   nodes_generated, nodes_expanded, max_frontier, ids_vars, helper_vars,
                   driver_vars>>

(* ------------------------------------------------------------------ *)
(* IDS (DFS tree with cutoffs)                                         *)
(* ------------------------------------------------------------------ *)
\* dict.get: the value, or None when the key is missing
get(map, key, none) == IF key \in DOMAIN map THEN map[key] ELSE none

\* map[key] = value
put(map, key, value) ==
    [x \in DOMAIN map \cup {key} |-> IF x = key THEN value ELSE map[x]]

\* while cur is not None: path.append((cur, action.get(cur))); cur = parent.get(cur)
RECURSIVE ids_backtrack(_, _, _)
ids_backtrack(cur, par, act) ==
    IF cur = NoneState THEN <<>>
    ELSE <<[state |-> cur, label |-> get(act, cur, NoneAction)]>>
         \o ids_backtrack(get(par, cur, NoneState), par, act)

\* mutant: path.reverse() is left out
reconstruct_no_reverse(goal, par, act) == ids_backtrack(goal, par, act)

\* reconstruct(goal): backtrack from the goal, then path.reverse()
reconstruct(goal, par, act) == Reverse(ids_backtrack(goal, par, act))

\* depth_limit_used is Optional[int]: <<>> is None, <<n>> is n
ids_metrics(gen, exp, maxf, depth, used) ==
    [nodes_generated |-> gen, nodes_expanded |-> exp, max_frontier_size |-> maxf,
     solution_depth |-> depth, solution_cost |-> depth, depth_limit_used |-> used]

Frame(node, depth) ==
    [node |-> node, depth |-> depth, succ |-> <<>>, k |-> 1,
     cutoff_flag |-> FALSE, at |-> "entry"]

Top == stack[Len(stack)]
Pop == SubSeq(stack, 1, Len(stack) - 1)
SetTop(f) == [stack EXCEPT ![Len(stack)] = f]

Caps == (0..MaxCap) \cup {DEFAULT_MAX_DEPTH_CAP}

\* a second call is made with the argument of the first
CapsOfRun == IF run = 1 THEN Caps ELSE {first.cap}

\* mutant: range(max_depth_cap + 2)
in_range_one_more(l, cap) == l <= cap + 1

\* limit in range(max_depth_cap + 1)
in_range(l, cap) == l <= cap

\* the driver calls ids_solve_with_metrics after bfs_solve_with_metrics returned
IdsCall ==
    /\ pc = "bfs_returned"
    /\ \E cap \in CapsOfRun : max_depth_cap' = cap
    /\ total_gen' = 0
    /\ total_exp' = 0
    /\ ids_max_frontier' = 1
    /\ ids_parent' = <<>>
    /\ ids_action' = <<>>
    /\ limit' = 0
    /\ pc' = "ids_for"
    /\ UNCHANGED <<inst, bfs_vars, stack, path_set, ret, ids_result, helper_vars, driver_vars>>

\* for limit in range(max_depth_cap + 1): clear the maps, call dls(start, 0, limit, {start})
IdsIter ==
    /\ pc = "ids_for"
    /\ in_range(limit, max_depth_cap)
    /\ ids_parent' = <<>>
    /\ ids_action' = <<>>
    /\ stack' = <<Frame(make_start_state(inst), 0)>>
    /\ path_set' = {make_start_state(inst)}
    /\ ret' = NoRet
    /\ pc' = "dls"
    /\ UNCHANGED <<inst, bfs_vars, max_depth_cap, limit, total_gen, total_exp,
                   ids_max_frontier, ids_result, helper_vars, driver_vars>>

ids_no_solution ==
    [path |-> <<>>,
     metrics |-> ids_metrics(total_gen, total_exp, ids_max_frontier, -1, <<>>)]

\* the range is exhausted: fall out of the for loop
IdsCapReached ==
    /\ pc = "ids_for"
    /\ ~in_range(limit, max_depth_cap)
    /\ ids_result' = ids_no_solution
    /\ pc' = "done"
    /\ UNCHANGED <<inst, bfs_vars, max_depth_cap, limit, ids_parent, ids_action,
                   total_gen, total_exp, ids_max_frontier, stack, path_set, ret,
                   helper_vars, driver_vars>>

\* entry of dls on a goal node
DlsGoal ==
    /\ pc = "dls" /\ stack /= <<>> /\ ~ret.pending
    /\ Top.at = "entry"
    /\ is_goal(Top.node, inst)
    /\ total_exp' = total_exp + 1
    /\ ids_max_frontier' = Max(ids_max_frontier, Top.depth + 1)
    /\ ret' = [goal |-> Top.node, cut |-> FALSE, pending |-> TRUE]
    /\ stack' = Pop
    /\ UNCHANGED <<inst, pc, bfs_vars, max_depth_cap, limit, ids_parent, ids_action,
                   total_gen, path_set, ids_result, helper_vars, driver_vars>>

\* entry of dls on a non-goal node at the depth limit
DlsCutoff ==
    /\ pc = "dls" /\ stack /= <<>> /\ ~ret.pending
    /\ Top.at = "entry"
    /\ ~is_goal(Top.node, inst)
    /\ Top.depth = limit
    /\ total_exp' = total_exp + 1
    /\ ids_max_frontier' = Max(ids_max_frontier, Top.depth + 1)
    /\ ret' = [goal |-> NoneState, cut |-> TRUE, pending |-> TRUE]
    /\ stack' = Pop
    /\ UNCHANGED <<inst, pc, bfs_vars, max_depth_cap, limit, ids_parent, ids_action,
                   total_gen, path_set, ids_result, helper_vars, driver_vars>>

\* entry of dls on a non-goal node above the limit: start the for loop
DlsOpen ==
    /\ pc = "dls" /\ stack /= <<>> /\ ~ret.pending
    /\ Top.at = "entry"
    /\ ~is_goal(Top.node, inst)
    /\ Top.depth /= limit
    /\ total_exp' = total_exp + 1
    /\ ids_max_frontier' = Max(ids_max_frontier, Top.depth + 1)
    /\ stack' = SetTop([Top EXCEPT !.succ = next_states(Top.node, inst),
                                   !.k = 1, !.cutoff_flag = FALSE, !.at = "loop"])
    /\ UNCHANGED <<inst, pc, bfs_vars, max_depth_cap, limit, ids_parent, ids_action,
                   total_gen, path_set, ret, ids_result, helper_vars, driver_vars>>

\* mutant: an exhausted loop returns None, False whatever its children reported
DlsExhausted_no_cutoff ==
    /\ pc = "dls" /\ stack /= <<>> /\ ~ret.pending
    /\ Top.at = "loop"
    /\ Top.k > Len(Top.succ)
    /\ ret' = [goal |-> NoneState, cut |-> FALSE, pending |-> TRUE]
    /\ stack' = Pop
    /\ UNCHANGED <<inst, pc, bfs_vars, max_depth_cap, limit, ids_parent, ids_action,
                   total_gen, total_exp, ids_max_frontier, path_set, ids_result,
                   helper_vars, driver_vars>>

\* the for loop of dls ran out of successors: return None, cutoff_flag
DlsExhausted ==
    /\ pc = "dls" /\ stack /= <<>> /\ ~ret.pending
    /\ Top.at = "loop"
    /\ Top.k > Len(Top.succ)
    /\ ret' = [goal |-> NoneState, cut |-> Top.cutoff_flag, pending |-> TRUE]
    /\ stack' = Pop
    /\ UNCHANGED <<inst, pc, bfs_vars, max_depth_cap, limit, ids_parent, ids_action,
                   total_gen, total_exp, ids_max_frontier, path_set, ids_result,
                   helper_vars, driver_vars>>

\* next successor is on the active path: continue
DlsSkip ==
    /\ pc = "dls" /\ stack /= <<>> /\ ~ret.pending
    /\ Top.at = "loop"
    /\ Top.k <= Len(Top.succ)
    /\ Top.succ[Top.k].ns \in path_set
    /\ total_gen' = total_gen + 1
    /\ stack' = SetTop([Top EXCEPT !.k = Top.k + 1])
    /\ UNCHANGED <<inst, pc, bfs_vars, max_depth_cap, limit, ids_parent, ids_action,
                   total_exp, ids_max_frontier, path_set, ret, ids_result, helper_vars, driver_vars>>

\* next successor is off the active path: record it and recurse
DlsRecurse ==
    /\ pc = "dls" /\ stack /= <<>> /\ ~ret.pending
    /\ Top.at = "loop"
    /\ Top.k <= Len(Top.succ)
    /\ Top.succ[Top.k].ns \notin path_set
    /\ LET ns == Top.succ[Top.k].ns
           desc == Top.succ[Top.k].desc
       IN  /\ total_gen' = total_gen + 1
           /\ ids_parent' = put(ids_parent, ns, Top.node)
           /\ ids_action' = put(ids_action, ns, desc)
           /\ path_set' = path_set \cup {ns}
           /\ stack' = Append(SetTop([Top EXCEPT !.at = "wait"]),
                              Frame(ns, Top.depth + 1))
    /\ UNCHANGED <<inst, pc, bfs_vars, max_depth_cap, limit, total_exp,
                   ids_max_frontier, ret, ids_result, helper_vars, driver_vars>>

\* mutant: a goal is passed up without path_set.remove(ns)
DlsResumeGoal_no_remove ==
    /\ pc = "dls" /\ stack /= <<>> /\ ret.pending
    /\ Top.at = "wait"
    /\ ret.goal /= NoneState
    /\ ret' = [goal |-> ret.goal, cut |-> FALSE, pending |-> TRUE]
    /\ stack' = Pop
    /\ UNCHANGED <<inst, pc, bfs_vars, max_depth_cap, limit, ids_parent, ids_action,
                   total_gen, total_exp, ids_max_frontier, path_set, ids_result,
                   helper_vars, driver_vars>>

\* the recursive call returned a goal: path_set.remove(ns); return goal, False
DlsResumeGoal ==
    /\ pc = "dls" /\ stack /= <<>> /\ ret.pending
    /\ Top.at = "wait"
    /\ ret.goal /= NoneState
    /\ path_set' = path_set \ {Top.succ[Top.k].ns}
    /\ ret' = [goal |-> ret.goal, cut |-> FALSE, pending |-> TRUE]
    /\ stack' = Pop
    /\ UNCHANGED <<inst, pc, bfs_vars, max_depth_cap, limit, ids_parent, ids_action,
                   total_gen, total_exp, ids_max_frontier, ids_result, helper_vars, driver_vars>>

\* mutant: the successor is not removed from path_set after the call
DlsResumeNext_no_remove ==
    /\ pc = "dls" /\ stack /= <<>> /\ ret.pending
    /\ Top.at = "wait"
    /\ ret.goal = NoneState
    /\ stack' = SetTop([Top EXCEPT !.cutoff_flag = IF ret.cut THEN TRUE ELSE @,
                                   !.k = Top.k + 1, !.at = "loop"])
    /\ ret' = NoRet
    /\ UNCHANGED <<inst, pc, bfs_vars, max_depth_cap, limit, ids_parent, ids_action,
                   total_gen, total_exp, ids_max_frontier, path_set, ids_result,
                   helper_vars, driver_vars>>

\* the recursive call returned no goal: path_set.remove(ns); note a cutoff; go on
DlsResumeNext ==
    /\ pc = "dls" /\ stack /= <<>> /\ ret.pending
    /\ Top.at = "wait"
    /\ ret.goal = NoneState
    /\ path_set' = path_set \ {Top.succ[Top.k].ns}
    /\ stack' = SetTop([Top EXCEPT !.cutoff_flag = IF ret.cut THEN TRUE ELSE @,
                                   !.k = Top.k + 1, !.at = "loop"])
    /\ ret' = NoRet
    /\ UNCHANGED <<inst, pc, bfs_vars, max_depth_cap, limit, ids_parent, ids_action,
                   total_gen, total_exp, ids_max_frontier, ids_result, helper_vars, driver_vars>>

\* the top-level dls call returned a goal: reconstruct and return
IdsFound ==
    /\ pc = "dls" /\ stack = <<>> /\ ret.pending
    /\ ret.goal /= NoneState
    /\ LET path == reconstruct(ret.goal, ids_parent, ids_action)
           depth == Len(path) - 1
       IN  ids_result' = [path |-> path,
                          metrics |-> ids_metrics(total_gen, total_exp,
                                                  ids_max_frontier, depth, <<limit>>)]
    /\ ret' = NoRet
    /\ pc' = "done"
    /\ UNCHANGED <<inst, bfs_vars, max_depth_cap, limit, ids_parent, ids_action,
                   total_gen, total_exp, ids_max_frontier, stack, path_set, helper_vars, driver_vars>>

\* the top-level dls call returned neither goal nor cutoff: break
IdsBreak ==
    /\ pc = "dls" /\ stack = <<>> /\ ret.pending
    /\ ret.goal = NoneState
    /\ ~ret.cut
    /\ ids_result' = ids_no_solution
    /\ ret' = NoRet
    /\ pc' = "done"
    /\ UNCHANGED <<inst, bfs_vars, max_depth_cap, limit, ids_parent, ids_action,
                   total_gen, total_exp, ids_max_frontier, stack, path_set, helper_vars, driver_vars>>

\* mutant: the depth bound grows by two per iteration
IdsDeepen_by_two ==
    /\ pc = "dls" /\ stack = <<>> /\ ret.pending
    /\ ret.goal = NoneState
    /\ ret.cut
    /\ limit' = limit + 2
    /\ ret' = NoRet
    /\ pc' = "ids_for"
    /\ UNCHANGED <<inst, bfs_vars, max_depth_cap, ids_parent, ids_action,
                   total_gen, total_exp, ids_max_frontier, stack, path_set,
                   ids_result, helper_vars, driver_vars>>

\* the top-level dls call reported a cutoff: next limit
IdsDeepen ==
    /\ pc = "dls" /\ stack = <<>> /\ ret.pending
    /\ ret.goal = NoneState
    /\ ret.cut
    /\ limit' = limit + 1
    /\ ret' = NoRet
    /\ pc' = "ids_for"
    /\ UNCHANGED <<inst, bfs_vars, max_depth_cap, ids_parent, ids_action,
                   total_gen, total_exp, ids_max_frontier, stack, path_set,
                   ids_result, helper_vars, driver_vars>>

(* ------------------------------------------------------------------ *)
(* Direct calls of the helpers on an arbitrary state                   *)
(* ------------------------------------------------------------------ *)
\* every (left, farmer) over the catalog
States(i) == [left : SUBSET SeqToSet(i.items), farmer : Sides]

opposite(side) == IF side = "L" THEN "R" ELSE "L"

\* the same situation with the two banks renamed
Mirror(state, i) ==
    [left |-> SeqToSet(i.items) \ state.left, farmer |-> opposite(state.farmer)]

Call(state, i) ==
    [called |-> TRUE, valid |-> state_valid(state, i),
     succ |-> next_states(state, i), cands |-> candidates(state, i)]

CallHelpers ==
    /\ pc = "helpers"
    /\ ~out.called
    /\ out' = Call(arg, inst)
    /\ UNCHANGED <<inst, pc, bfs_vars, ids_vars, arg, mirror_out, driver_vars>>

CallHelpersMirror ==
    /\ pc = "helpers"
    /\ ~mirror_out.called
    /\ mirror_out' = Call(Mirror(arg, inst), inst)
    /\ UNCHANGED <<inst, pc, bfs_vars, ids_vars, arg, out, driver_vars>>

(* ------------------------------------------------------------------ *)
(* Specifications                                                      *)
(* ------------------------------------------------------------------ *)
IdsIdle ==
    /\ max_depth_cap = 0 /\ limit = 0
    /\ ids_parent = <<>> /\ ids_action = <<>>
    /\ total_gen = 0 /\ total_exp = 0 /\ ids_max_frontier = 1
    /\ stack = <<>> /\ path_set = {} /\ ret = NoRet
    /\ ids_result = NoResult

BfsIdle ==
    /\ q = <<>> /\ parent = <<>> /\ action = <<>> /\ visited = {}
    /\ dequeued = <<>>
    /\ bfs_s = NoneState /\ bfs_succ = <<>> /\ bfs_k = 1
    /\ nodes_generated = 0 /\ nodes_expanded = 0 /\ max_frontier = 1
    /\ bfs_result = NoResult

\* the program waits at its menu: no solver has been called
Init ==
    /\ inst = NoInstance
    /\ pc = "menu"
    /\ BfsIdle
    /\ IdsIdle
    /\ arg = NoneState /\ out = NoOut /\ mirror_out = NoOut
    /\ run = 1 /\ first = NoFirst

Bfs == BfsGoal \/ BfsDequeue \/ BfsVisit \/ BfsSeen \/ BfsFail

Dls == \/ DlsGoal \/ DlsCutoff \/ DlsOpen
       \/ DlsExhausted \/ DlsSkip \/ DlsRecurse
       \/ DlsResumeGoal \/ DlsResumeNext

Ids == IdsCall \/ IdsIter \/ IdsCapReached \/ IdsFound \/ IdsBreak \/ IdsDeepen

Next == BfsCall \/ Bfs \/ Dls \/ Ids

Spec == Init /\ [][Next]_vars

\* the solvers are single-threaded and run to completion
FairSpec == Spec /\ WF_vars(Next)

\* the driver runs both solvers on the instance and then both again
RerunNext == Next \/ BfsRecall

RerunSpec == Init /\ [][RerunNext]_vars

\* what the dataclass constructor can be handed: also an empty catalog, and
\* forbidden pairs over items that the catalog does not hold
RawInstances ==
    UNION {
      { Instance(items, fp, sf, sis, gs) :
          fp \in SUBSET AllPairs(ITEMS),
          sf \in Sides,
          sis \in [SeqToSet(items) -> Sides],
          gs \in Sides }
      : items \in {<<>>} \cup Catalogs }

\* Instance(...): the generated __init__ stores the fields and returns
Construct ==
    /\ pc = "menu"
    /\ \E raw \in RawInstances : inst' = raw
    /\ pc' = "constructed"
    /\ UNCHANGED <<bfs_vars, ids_vars, helper_vars, driver_vars>>

\* the driver calls bfs_solve_with_metrics on the instance just constructed
BfsCallConstructed ==
    /\ pc = "constructed"
    /\ q' = <<make_start_state(inst)>>
    /\ parent' = (make_start_state(inst) :> NoneState)
    /\ action' = (make_start_state(inst) :> NoneAction)
    /\ visited' = {make_start_state(inst)}
    /\ dequeued' = <<>>
    /\ nodes_generated' = 0
    /\ nodes_expanded' = 0
    /\ max_frontier' = 1
    /\ pc' = "bfs"
    /\ UNCHANGED <<inst, bfs_s, bfs_succ, bfs_k, bfs_result, ids_vars, helper_vars,
                   driver_vars>>

ConstructNext == Construct \/ BfsCallConstructed \/ Bfs

ConstructSpec == Init /\ [][ConstructNext]_vars

HelperInit ==
    /\ inst \in Instances
    /\ pc = "helpers"
    /\ arg \in States(inst)
    /\ out = NoOut /\ mirror_out = NoOut
    /\ BfsIdle
    /\ IdsIdle
    /\ run = 1 /\ first = NoFirst

HelperNext == CallHelpers \/ CallHelpersMirror

HelperSpec == HelperInit /\ [][HelperNext]_vars

(* ------------------------------------------------------------------ *)
(* Properties                                                          *)
(* ------------------------------------------------------------------ *)
BfsReturned == pc \in {"bfs_returned", "ids_for", "dls", "done"}
IdsReturned == pc = "done"

Depth(result) == result.metrics.solution_depth
Cost(result) == result.metrics.solution_cost

\* the states one legal move away from a state of the set
MoveImage(S, i) == UNION {{m.ns : m \in SeqToSet(next_states(s, i))} : s \in S}

\* least number of legal moves from the start state to a goal state, found by
\* whole layers of the move graph; -1 when no goal state can be reached
ShortestGoalDistance(i) ==
    LET Search[x \in [frontier : SUBSET States(i), seen : SUBSET States(i), d : Nat]] ==
            IF \E s \in x.frontier : is_goal(s, i) THEN x.d
            ELSE IF MoveImage(x.frontier, i) \subseteq x.seen THEN -1
            ELSE Search[[frontier |-> MoveImage(x.frontier, i) \ x.seen,
                         seen |-> x.seen \cup MoveImage(x.frontier, i),
                         d |-> x.d + 1]]
    IN  Search[[frontier |-> {make_start_state(i)},
                seen |-> {make_start_state(i)}, d |-> 0]]

TakesGoatAcross == [cargo |-> "G", dir |-> "L->R"]

\* C1: on INSTANCE_A both solvers (IDS with a cap that admits the solution, as
\* with the default cap) return a path of solution_depth 7 whose second entry
\* is labelled with the farmer taking the Goat from left to right.
C1_ClassicDepthSevenGoatFirst ==
    inst = INSTANCE_A =>
        /\ BfsReturned =>
              /\ Depth(bfs_result) = 7
              /\ Len(bfs_result.path) = 8
              /\ bfs_result.path[2].label = TakesGoatAcross
        /\ (IdsReturned /\ max_depth_cap = DEFAULT_MAX_DEPTH_CAP) =>
              /\ Depth(ids_result) = 7
              /\ Len(ids_result.path) = 8
              /\ ids_result.path[2].label = TakesGoatAcross

C1_Witness ==
    /\ inst = INSTANCE_A
    /\ IdsReturned
    /\ max_depth_cap = DEFAULT_MAX_DEPTH_CAP
    /\ Len(bfs_result.path) = 8
    /\ Len(ids_result.path) = 8

\* C2: when BFS returns a non-empty path, solution_depth = solution_cost =
\* path length - 1 is the least number of legal moves from the start state to
\* a goal state.
C2_BfsDepthIsMinimal ==
    (BfsReturned /\ bfs_result.path /= <<>>) =>
        /\ Depth(bfs_result) = Len(bfs_result.path) - 1
        /\ Cost(bfs_result) = Depth(bfs_result)
        /\ Depth(bfs_result) = ShortestGoalDistance(inst)

C2_Witness ==
    /\ BfsReturned
    /\ inst /= INSTANCE_A
    /\ Depth(bfs_result) > 7
    /\ Len(bfs_result.path) = Depth(bfs_result) + 1

\* C3: when both solvers return a non-empty path, IDS reports the same
\* solution_depth as BFS.
C3_IdsDepthEqualsBfsDepth ==
    (IdsReturned /\ bfs_result.path /= <<>> /\ ids_result.path /= <<>>) =>
        Depth(ids_result) = Depth(bfs_result)

C3_Witness ==
    /\ IdsReturned
    /\ bfs_result.path /= <<>>
    /\ ids_result.path /= <<>>
    /\ Depth(ids_result) = 5
    /\ total_exp > nodes_expanded

\* a bank without the farmer that holds both members of a forbidden pair
StrandedPair(state, i) ==
    \E p \in i.forbidden_pairs :
        \/ state.farmer /= "L" /\ {p[1], p[2]} \subseteq state.left
        \/ state.farmer /= "R" /\ {p[1], p[2]} \subseteq (SeqToSet(i.items) \ state.left)

\* C4: for every state of every instance, no state returned by next_states has
\* a bank (left, or the derived right) that lacks the farmer and holds both
\* members of a forbidden pair.
C4_SuccessorsAreSafe ==
    out.called =>
        \A k \in 1..Len(out.succ) : ~StrandedPair(out.succ[k].ns, inst)

C4_Witness ==
    /\ out.called
    /\ Len(out.succ) >= 2
    /\ Len(out.succ) < Len(out.cands)
    /\ \E c \in SeqToSet(out.cands) :
          /\ move(arg, c).ns.farmer = "L"
          /\ StrandedPair(move(arg, c).ns, inst)

\* every item is on the goal side
AllOnGoalSide(state, i) ==
    \A it \in SeqToSet(i.items) :
        (IF it \in state.left THEN "L" ELSE "R") = i.goal_side

GoalOnlyAtEnd(path) ==
    path /= <<>> =>
        /\ AllOnGoalSide(path[Len(path)].state, inst)
        /\ \A k \in 1..(Len(path) - 1) : ~AllOnGoalSide(path[k].state, inst)

\* C5: in every non-empty path returned by either solver the last state is a
\* goal state and no earlier state of the path is one.
C5_GoalOnlyAtPathEnd ==
    /\ BfsReturned => GoalOnlyAtEnd(bfs_result.path)
    /\ IdsReturned => GoalOnlyAtEnd(ids_result.path)

C5_Witness ==
    /\ IdsReturned
    /\ Len(bfs_result.path) >= 4
    /\ Len(ids_result.path) >= 4
    /\ inst.goal_side = "L"

\* farmer and all items start on the left, the goal side is the right, and
\* every two distinct catalog items form a forbidden pair
AllPairsForbidden(i) ==
    /\ i.forbidden_pairs = AllPairs(i.items)
    /\ i.start_farmer = "L"
    /\ \A it \in SeqToSet(i.items) : i.start_item_side[it] = "L"
    /\ i.goal_side = "R"

NoSolution(result) ==
    /\ result.path = <<>>
    /\ Depth(result) = -1
    /\ Cost(result) = -1

\* C6 as stated: with more than one item and every pair forbidden, both
\* solvers return an empty path with solution_depth = solution_cost = -1.
C6_Original ==
    (AllPairsForbidden(inst) /\ Len(inst.items) > 1) =>
        /\ BfsReturned => NoSolution(bfs_result)
        /\ IdsReturned => NoSolution(ids_result)

\* C6 (amended): with more than two items and every pair forbidden (farmer and
\* all items starting on the left, goal side right), both solvers terminate
\* and return an empty path with solution_depth = solution_cost = -1.
C6_AllForbiddenUnsolvable ==
    /\ (pc = "bfs" /\ AllPairsForbidden(inst) /\ Len(inst.items) > 2)
          ~> (IdsReturned /\ NoSolution(bfs_result) /\ NoSolution(ids_result))
    /\ []((AllPairsForbidden(inst) /\ Len(inst.items) > 2) =>
            /\ BfsReturned => NoSolution(bfs_result)
            /\ IdsReturned => NoSolution(ids_result))

C6_Witness ==
    /\ AllPairsForbidden(inst)
    /\ Len(inst.items) > 2
    /\ IdsReturned
    /\ NoSolution(bfs_result)
    /\ NoSolution(ids_result)
    /\ max_depth_cap = DEFAULT_MAX_DEPTH_CAP

\* C7: when no goal state is reachable from the start state, BFS eventually
\* empties its frontier and returns an empty path with solution_depth =
\* solution_cost = -1; and in every BFS result the path is empty exactly when
\* solution_depth is -1.
C7_BfsTerminatesWithoutSolution ==
    /\ (pc = "bfs" /\ ShortestGoalDistance(inst) = -1)
          ~> (BfsReturned /\ q = <<>> /\ NoSolution(bfs_result))
    /\ [](BfsReturned => (bfs_result.path = <<>> <=> Depth(bfs_result) = -1))

C7_Witness ==
    /\ BfsReturned
    /\ ShortestGoalDistance(inst) = -1
    /\ q = <<>>
    /\ NoSolution(bfs_result)
    /\ nodes_expanded >= 4

\* C8: called with a max_depth_cap below the minimal solution depth of a
\* solvable instance, IDS runs the limits 0..max_depth_cap and returns the
\* no-solution result (empty path, solution_depth = solution_cost = -1,
\* depth_limit_used None); no recursion depth ever exceeds the cap.
C8_CapBelowSolutionDepth ==
    /\ pc = "dls" => \A k \in 1..Len(stack) : stack[k].depth <= max_depth_cap
    /\ pc \in {"dls", "ids_for", "done"} => ids_max_frontier <= max_depth_cap + 1
    /\ (IdsReturned /\ max_depth_cap < ShortestGoalDistance(inst)) =>
          /\ NoSolution(ids_result)
          /\ ids_result.metrics.depth_limit_used = <<>>
          /\ limit = max_depth_cap + 1

C8_Witness ==
    /\ IdsReturned
    /\ max_depth_cap = MaxCap
    /\ ShortestGoalDistance(inst) > MaxCap
    /\ NoSolution(ids_result)
    /\ ids_max_frontier = MaxCap + 1

\* position of an item in the catalog
CatalogIndex(it, i) == CHOOSE k \in 1..Len(i.items) : i.items[k] = it

\* the bank the farmer stands on
FarmerBank(state, i) ==
    IF state.farmer = "L" THEN state.left ELSE SeqToSet(i.items) \ state.left

\* the cargo named by a move label, None for the empty-cargo move
CargoOf(m) == IF m.desc.cargo = "nothing" THEN NoneCargo ELSE m.desc.cargo

\* C9 as stated: the empty-cargo move first, then the items of the farmer's
\* bank in catalog order, for the candidates and for the safe successors.
C9_Original ==
    out.called =>
        /\ out.cands[1] = NoneCargo
        /\ SeqToSet(Tail(out.cands)) = FarmerBank(arg, inst)
        /\ \A j, k \in 2..Len(out.cands) :
              j < k => CatalogIndex(out.cands[j], inst) < CatalogIndex(out.cands[k], inst)
        /\ \A j, k \in 1..Len(out.succ) :
              (j < k /\ CargoOf(out.succ[j]) /= NoneCargo) =>
                  CatalogIndex(CargoOf(out.succ[j]), inst)
                      < CatalogIndex(CargoOf(out.succ[k]), inst)

\* C9 (amended): the empty-cargo move first, then one move per item of the
\* farmer's bank in ascending order of the item names (Python's sorted), and
\* the safe successors are returned in that order: for catalog (W, G, C) a
\* state where all three cargo moves are safe lists C before G before W.
C9_SortedMoveOrder ==
    out.called =>
        /\ out.cands[1] = NoneCargo
        /\ Len(out.cands) = 1 + Cardinality(FarmerBank(arg, inst))
        /\ SeqToSet(Tail(out.cands)) = FarmerBank(arg, inst)
        /\ \A j, k \in 2..Len(out.cands) :
              j < k => ord[out.cands[j]] < ord[out.cands[k]]
        /\ \A j, k \in 1..Len(out.succ) :
              j < k => /\ CargoOf(out.succ[k]) /= NoneCargo
                       /\ CargoOf(out.succ[j]) /= NoneCargo =>
                              ord[CargoOf(out.succ[j])] < ord[CargoOf(out.succ[k])]
        /\ (inst.items = ITEMS /\ Len(out.succ) = 4) =>
              /\ CargoOf(out.succ[1]) = NoneCargo
              /\ CargoOf(out.succ[2]) = "C"
              /\ CargoOf(out.succ[3]) = "G"
              /\ CargoOf(out.succ[4]) = "W"

C9_Witness ==
    /\ out.called
    /\ inst.items = ITEMS
    /\ arg.farmer = "R"
    /\ Len(out.succ) = 4
    /\ out.succ[2].ns.left = {"C"}

\* C10: state_valid gives the same verdict for (left, farmer) and for the
\* relabelled state (items - left, opposite(farmer)).
C10_ValidSymmetricUnderRelabeling ==
    (out.called /\ mirror_out.called) => out.valid = mirror_out.valid

C10_Witness ==
    /\ out.called
    /\ mirror_out.called
    /\ ~out.valid
    /\ arg.farmer = "L"
    /\ arg.left /= SeqToSet(inst.items)

\* C11: a second call of each solver on the same instance (IDS with the same
\* cap) returns the same path and the same value for every metric as the first.
C11_SecondRunIdentical ==
    run = 2 =>
        /\ BfsReturned => bfs_result = first.bfs
        /\ IdsReturned => ids_result = first.ids

C11_Witness ==
    /\ run = 2
    /\ IdsReturned
    /\ inst = INSTANCE_B
    /\ max_depth_cap = DEFAULT_MAX_DEPTH_CAP
    /\ ids_result.path /= <<>>
    /\ ids_result.metrics.nodes_generated > 0
    /\ ids_result = first.ids
    /\ bfs_result = first.bfs

\* a non-empty catalog, and forbidden pairs over catalog items only
WellFormed(i) ==
    /\ Len(i.items) > 0
    /\ \A p \in i.forbidden_pairs : {p[1], p[2]} \subseteq SeqToSet(i.items)

\* C12: an Instance with an empty catalog, or with a forbidden pair naming an
\* item outside the catalog, is rejected at construction: no such instance
\* ever exists, and no solver is ever entered on one.
C12_MalformedInstanceRejected ==
    pc /= "menu" => WellFormed(inst)

InBfs == pc \in {"bfs", "bfs_for"} \/ BfsReturned

NoDuplicates(seq) == \A j, k \in 1..Len(seq) : j /= k => seq[j] /= seq[k]

\* the states that legal moves can reach from the start state
ReachableStates(i) ==
    LET Closure[S \in SUBSET States(i)] ==
            IF MoveImage(S, i) \subseteq S THEN S ELSE Closure[S \cup MoveImage(S, i)]
    IN  Closure[{make_start_state(i)}]

\* C13: throughout the BFS loop the visited set is exactly the set of states
\* ever enqueued (those still in q and those already popped), q holds no state
\* twice, no state is popped twice, and nodes_expanded counts the pops and
\* never exceeds the number of distinct reachable states.
C13_VisitedIsEverEnqueued ==
    InBfs =>
        /\ visited = SeqToSet(q) \cup SeqToSet(dequeued)
        /\ NoDuplicates(q)
        /\ NoDuplicates(dequeued)
        /\ SeqToSet(q) \cap SeqToSet(dequeued) = {}
        /\ nodes_expanded = Len(dequeued)
        /\ nodes_expanded <= Cardinality(ReachableStates(inst))

C13_Witness ==
    /\ pc = "bfs"
    /\ Len(q) >= 2
    /\ Len(dequeued) >= 3
    /\ nodes_generated > Cardinality(visited)

\* the successors the for loop has iterated over so far: all of them for every
\* popped non-goal state whose loop is finished, bfs_k - 1 for the one in progress
SuccessorsIterated ==
    LET done == IF pc = "bfs_for" THEN SubSeq(dequeued, 1, Len(dequeued) - 1) ELSE dequeued
        Sum[n \in 0..Len(done)] ==
            IF n = 0 THEN 0
            ELSE Sum[n - 1] + (IF is_goal(done[n], inst) THEN 0
                               ELSE Len(next_states(done[n], inst)))
    IN  Sum[Len(done)] + (IF pc = "bfs_for" THEN bfs_k - 1 ELSE 0)

\* C14 as stated: at every point of the BFS nodes_generated equals the number
\* of states enqueued other than the start state, the size of visited minus 1.
C14_Original ==
    InBfs => nodes_generated = Cardinality(visited) - 1

\* C14 amended: the BFS counter is incremented once for every successor that
\* next_states returns for an expanded state, already visited or not, so
\* nodes_generated equals the number of successors iterated so far and is at
\* least the size of visited minus 1.
C14_GeneratedCountsEverySuccessor ==
    InBfs =>
        /\ nodes_generated = SuccessorsIterated
        /\ nodes_generated >= Cardinality(visited) - 1

C14_Witness ==
    /\ pc = "bfs_for"
    /\ bfs_k = 2
    /\ Len(dequeued) >= 2
    /\ nodes_generated > Cardinality(visited) - 1

\* the path starts at the start state with label None, and each later entry is
\* one of the (state, label) pairs next_states gives for the state before it
LegalMoveSequence(path) ==
    path /= <<>> =>
        /\ path[1].state = make_start_state(inst)
        /\ path[1].label = NoneAction
        /\ \A j \in 2..Len(path) :
               \E m \in SeqToSet(next_states(path[j - 1].state, inst)) :
                   m.ns = path[j].state /\ m.desc = path[j].label

\* C15: every non-empty path returned by BFS or by IDS is a legal move
\* sequence from the start state, the overwriting of the IDS parent and
\* action maps in sibling branches notwithstanding.
C15_PathsAreLegalMoveSequences ==
    /\ BfsReturned => LegalMoveSequence(bfs_result.path)
    /\ IdsReturned => LegalMoveSequence(ids_result.path)

C15_Witness ==
    /\ IdsReturned
    /\ Len(ids_result.path) >= 4
    /\ Len(bfs_result.path) = Len(ids_result.path)
    /\ Cardinality(DOMAIN ids_parent) > Len(ids_result.path) - 1
    /\ \E x \in DOMAIN ids_parent :
           /\ \A j \in 1..Len(ids_result.path) : ids_result.path[j].state /= x
           /\ \E j \in 1..Len(ids_result.path) : ids_result.path[j].state = ids_parent[x]

\* the call dls(start, 0, limit, {start}) of the outer loop has just returned
IterationReturned == pc = "dls" /\ stack = <<>> /\ ret.pending

\* C16: an iteration of the IDS outer loop returns neither a goal nor a cutoff
\* only when no goal state can be reached at all; when a goal can be reached in
\* d <= max_depth_cap moves, every iteration with limit < d returns a cutoff
\* and no goal, and IDS returns a non-empty path.
C16_NoCutoffOnlyWhenUnsolvable ==
    /\ (IterationReturned /\ ret.goal = NoneState /\ ~ret.cut) =>
           ShortestGoalDistance(inst) = -1
    /\ (IterationReturned /\ limit < ShortestGoalDistance(inst)) =>
           ret.cut /\ ret.goal = NoneState
    /\ (IdsReturned /\ ShortestGoalDistance(inst) \in 0..max_depth_cap) =>
           ids_result.path /= <<>>

C16_Witness ==
    /\ IterationReturned
    /\ ret.goal = NoneState
    /\ ~ret.cut
    /\ limit >= 2
    /\ Len(inst.items) = 3
    /\ ShortestGoalDistance(inst) = -1

\* C17: every state of a path returned by BFS or by IDS, the start state at
\* position 0 included, satisfies state_valid, whatever the instance.
C17_PathStatesValid ==
    /\ BfsReturned =>
           \A j \in 1..Len(bfs_result.path) : state_valid(bfs_result.path[j].state, inst)
    /\ IdsReturned =>
           \A j \in 1..Len(ids_result.path) : state_valid(ids_result.path[j].state, inst)

\* C18: every successor of (left, farmer) has the farmer on the other side and
\* a left bank that differs from left by at most one item, removed from left
\* on a crossing L to R and added from the right bank on a crossing R to L; the
\* items of the bank the farmer did not start from keep their side.
C18_MoveFrame ==
    out.called =>
        \A j \in 1..Len(out.succ) :
            LET new_left == out.succ[j].ns.left
                new_farmer == out.succ[j].ns.farmer
                right == SeqToSet(inst.items) \ arg.left
            IN  /\ new_farmer \in Sides
                /\ new_farmer /= arg.farmer
                /\ arg.farmer = "L" =>
                       /\ new_left \subseteq arg.left
                       /\ Cardinality(arg.left \ new_left) <= 1
                /\ arg.farmer = "R" =>
                       /\ arg.left \subseteq new_left
                       /\ Cardinality(new_left \ arg.left) <= 1
                       /\ (new_left \ arg.left) \subseteq right

C18_Witness ==
    /\ out.called
    /\ arg.farmer = "R"
    /\ arg.left /= {}
    /\ Len(out.succ) >= 3
    /\ \E j \in 1..Len(out.succ) : Cardinality(out.succ[j].ns.left \ arg.left) = 1
    /\ \E j \in 1..Len(out.succ) : out.succ[j].ns.left = arg.left

\* the nodes of the dls calls in progress, outermost first
StackNodes == [j \in 1..Len(stack) |-> stack[j].node]

\* the node of the dls call that has just returned
ReturnedNode == IF stack = <<>> THEN make_start_state(inst) ELSE Top.succ[Top.k].ns

PathStates(path) == [j \in 1..Len(path) |-> path[j].state]

\* C19: while dls runs, path_set is exactly the set of the distinct states of
\* the calls in progress, k + 1 of them at the entry of a call with depth k; no
\* call is made on a state already in path_set; a call that returns, with a
\* goal, a cutoff or neither, leaves path_set as it was at its entry; and the
\* path IDS returns repeats no state.
C19_PathSetIsRecursionStack ==
    /\ pc = "dls" =>
        /\ NoDuplicates(StackNodes)
        /\ \A j \in 1..Len(stack) : stack[j].depth = j - 1
        /\ ~ret.pending =>
               /\ path_set = SeqToSet(StackNodes)
               /\ Top.at = "entry" => Cardinality(path_set) = Top.depth + 1
        /\ ret.pending =>
               /\ ReturnedNode \notin SeqToSet(StackNodes)
               /\ path_set = SeqToSet(StackNodes) \cup {ReturnedNode}
    /\ IdsReturned => NoDuplicates(PathStates(ids_result.path))

C19_Witness ==
    /\ pc = "dls"
    /\ ret.pending
    /\ ret.cut
    /\ Len(stack) = 4
    /\ limit > 4
    /\ Cardinality(path_set) = 5
    /\ total_gen > total_exp

\* C20: when IDS returns a non-empty path, depth_limit_used is the
\* solution_depth (the goal is found at the depth bound, not above it) and
\* max_frontier_size is solution_depth + 1.
C20_LimitUsedIsSolutionDepth ==
    (IdsReturned /\ ids_result.path /= <<>>) =>
        /\ ids_result.metrics.depth_limit_used = <<Depth(ids_result)>>
        /\ ids_result.metrics.max_frontier_size = Depth(ids_result) + 1

C20_Witness ==
    /\ IdsReturned
    /\ inst.goal_side = "L"
    /\ Len(ids_result.path) >= 6
    /\ ids_result.metrics.depth_limit_used = <<Len(ids_result.path) - 1>>
    /\ ids_result.metrics.max_frontier_size = Len(ids_result.path)

====
